---- MODULE Spec2Model ----
(***************************************************************************)
(* A model of the recloser circuit breaker: the RingBuffer failure counter *)
(* (src/src/ring_buffer.rs) and the three-state Recloser with its hooks    *)
(* call_permitted / on_success / on_error driven by call_with              *)
(* (src/src/recloser.rs) and by the polls of a RecloserFuture              *)
(* (src/src/async.rs).                                                     *)
(*                                                                         *)
(* Time is counted in whole seconds.  A failure rate is the pair           *)
(* <<numerator, denominator>> of the f32 quotient card_new / len; the      *)
(* sentinel -1.0 is <<-1, 1>>.  Thresholds are pairs as well and are       *)
(* compared by cross-multiplication, which agrees with the f32             *)
(* comparison for the window lengths and thresholds drawn here (a          *)
(* correctly rounded quotient of two small integers equals the literal of  *)
(* the same rational, and distinct rationals of this size round apart).    *)
(***************************************************************************)
EXTENDS Integers, Sequences, FiniteSets, TLC

VARIABLES
    cfg,      \* the Recloser's configuration fields, fixed by build()
    heap,     \* every State value published so far, in allocation order
    state,    \* Recloser.state: the Atomic<State> cell, an index into heap
    now,      \* Instant::now(), the (fake) monotonic clock
    pc,       \* per thread: where it is inside call_with or poll
    future,   \* per thread: the RecloserFuture it holds, if any
    shared,   \* per thread: the Shared<State> its current hook loaded
    hook,     \* per thread: the record hook call_with chose
    rate,     \* per thread: failure_rate returned by set_current
    result,   \* per thread: what its last call_with returned
    nrec,     \* per State value: outcomes recorded into its counter, counted
              \* up to one more than its length (history)
    built,    \* per State value: the hook that built it, the clock that
              \* hook read and the State value it had loaded (history)
    audit,    \* per thread: what its current call has done so far (history)
    rbuf,     \* a stand-alone RingBuffer
    rhist,    \* the outcomes recorded into rbuf, oldest first (history)
    rret,     \* what the last set_current on rbuf returned
    rpc,      \* per thread: where it is inside set_current on rbuf
    rloc,     \* per thread: the locals of its set_current on rbuf
    garbage,  \* the State values handed to the collector for deferred
              \* destruction, and those it has destroyed
    state_started_ts,
              \* Recloser.state_started_ts (feature "tracing")
    events,   \* per State value: the started_ts, and the ended_ts with its
              \* duration_sec, of the events emitted about it (history)
    swap_ts,  \* per thread: the wall clock it read after its exchange
    recovered \* the wrapped function f: 0 while it can fail, and once it
              \* cannot, the number of State values published when it
              \* stopped failing

vars == <<cfg, heap, state, now, pc, future, shared, hook, rate, result,
          nrec, built, audit, rbuf, rhist, rret, rpc, rloc, garbage,
          state_started_ts, events, swap_ts, recovered>>
rbvars == <<rbuf, rhist, rret, rpc, rloc>>
trvars == <<state_started_ts, events, swap_ts>>
brvars == <<cfg, heap, state, now, pc, future, shared, hook, rate, result,
            nrec, built, audit, garbage, trvars, recovered>>

\* ------------------------------------------------------------------ bounds

MaxLen == 2
MaxStates == 6
MaxRecords == 5

Threads == {"t1", "t2"}

\* ------------------------------------------------------------- ring buffer

\* The sentinel set_current returns while the window is still filling.
Sentinel == <<-1, 1>>

RateGt(a, b) == a[1] * b[2] > b[1] * a[2]
RateGe(a, b) == a[1] * b[2] >= b[1] * a[2]
RateLe(a, b) == a[1] * b[2] <= b[1] * a[2]

to_int(b) == IF b THEN 1 ELSE 0

RingBufferNew(len) ==
    [ spin_lock |-> FALSE,
      len       |-> len,
      card      |-> 0,
      filling   |-> 0,
      ring      |-> [k \in 0 .. len - 1 |-> FALSE],
      index     |-> 0 ]

\* set_current forgetting the value it overwrites.
set_current_keeps_old(rb, val_new) ==
    LET i        == rb.index
        j        == IF i = rb.len - 1 THEN 0 ELSE i + 1
        card_new == rb.card + to_int(val_new)
        full     == rb.filling = rb.len
    IN  [ rate |-> IF full THEN <<card_new, rb.len>> ELSE Sentinel,
          rb   |-> [rb EXCEPT !.filling = IF full THEN @ ELSE @ + 1,
                              !.ring[i] = val_new,
                              !.index   = j,
                              !.card    = card_new] ]

\* set_current testing the filling counter after incrementing it.
set_current_eager(rb, val_new) ==
    LET i        == rb.index
        j        == IF i = rb.len - 1 THEN 0 ELSE i + 1
        val_old  == rb.ring[i]
        card_new == rb.card - to_int(val_old) + to_int(val_new)
        filled   == IF rb.filling = rb.len THEN rb.len ELSE rb.filling + 1
    IN  [ rate |-> IF filled = rb.len THEN <<card_new, rb.len>> ELSE Sentinel,
          rb   |-> [rb EXCEPT !.filling = filled,
                              !.ring[i] = val_new,
                              !.index   = j,
                              !.card    = card_new] ]

\* The critical section of set_current: the buffer after the call and the
\* rate it returns.  The filling counter is tested before it is incremented.
set_current(rb, val_new) ==
    LET i        == rb.index
        j        == IF i = rb.len - 1 THEN 0 ELSE i + 1
        val_old  == rb.ring[i]
        card_old == rb.card
        card_new == card_old - to_int(val_old) + to_int(val_new)
        full     == rb.filling = rb.len
    IN  [ rate |-> IF full THEN <<card_new, rb.len>> ELSE Sentinel,
          rb   |-> [rb EXCEPT !.filling = IF full THEN @ ELSE @ + 1,
                              !.ring[i] = val_new,
                              !.index   = j,
                              !.card    = card_new] ]

\* ------------------------------------------------------------------ states

NoRingBuffer == RingBufferNew(0)

\* enum State { Closed(RingBuffer), Open(Instant, u32), HalfOpen(RingBuffer, u32) }
Closed(rb)       == [tag |-> "Closed",   rb |-> rb, until |-> 0, fc |-> 0]
Open(until, fc)  == [tag |-> "Open",     rb |-> NoRingBuffer, until |-> until, fc |-> fc]
HalfOpen(rb, fc) == [tag |-> "HalfOpen", rb |-> rb, until |-> 0, fc |-> fc]

\* ------------------------------------------------------------ wait strategy

Pow2[n \in Nat] == IF n = 0 THEN 1 ELSE 2 * Pow2[n - 1]

Min(a, b) == IF a <= b THEN a ELSE b

\* The strategies a caller may install: closures (u32, Duration) -> Duration.
\*   "same"       |_, open_wait| open_wait
\*   "exp"        |fc, wait| 2^fc * wait
\*   "exp_capped" |fc, wait| min(2^fc * wait, 5 s)
StrategyCap == 5

next_wait(strategy, fail_count, open_wait) ==
    CASE strategy = "same"       -> open_wait
      [] strategy = "exp"        -> Pow2[fail_count] * open_wait
      [] strategy = "exp_capped" -> Min(Pow2[fail_count] * open_wait, StrategyCap)

\* on_error handing the strategy the flap count it is about to publish.
HalfOpenWait_next_flap(fc) ==
    IF cfg.open_wait_strategy = "none"
    THEN cfg.open_wait
    ELSE next_wait(cfg.open_wait_strategy, fc + 1, cfg.open_wait)

\* The wait on_error adds to the clock when it leaves HalfOpen(_, fc).
HalfOpenWait(fc) ==
    IF cfg.open_wait_strategy = "none"
    THEN cfg.open_wait
    ELSE next_wait(cfg.open_wait_strategy, fc, cfg.open_wait)

\* Leaving Closed with the wait the strategy gives for a first flap.
ClosedWait_strategy == HalfOpenWait(1)

\* The wait on_success / on_error add to the clock when they leave Closed.
ClosedWait == cfg.open_wait

\* ---------------------------------------------------------------- decisions

\* on_success in Closed only recording, as in the first version of the
\* breaker.
TripClosedOnSuccess_never(r) == FALSE

\* on_success in Closed tripping only above the threshold.
TripClosedOnSuccess_strict(r) ==
    RateGt(r, Sentinel) /\ RateGt(r, cfg.threshold_closed)

\* on_success in Closed: failure_rate > -1.0 && >= threshold_closed
TripClosedOnSuccess(r) == RateGt(r, Sentinel) /\ RateGe(r, cfg.threshold_closed)

\* on_error in Closed: failure_rate > -1.0 && >= threshold_closed
TripClosedOnError(r) == RateGt(r, Sentinel) /\ RateGe(r, cfg.threshold_closed)

\* on_success in HalfOpen without the test for the sentinel.
CloseHalfOpen_unguarded(r) == RateLe(r, cfg.threshold_half_open)

\* on_success in HalfOpen closing only below the threshold.
CloseHalfOpen_strict(r) ==
    RateGt(r, Sentinel) /\ RateGt(cfg.threshold_half_open, r)

\* on_success in HalfOpen: failure_rate > -1.0 && <= threshold_half_open
CloseHalfOpen(r) == RateGt(r, Sentinel) /\ RateLe(r, cfg.threshold_half_open)

\* on_error in HalfOpen: failure_rate > -1.0 && >= threshold_half_open
TripHalfOpen(r) == RateGt(r, Sentinel) /\ RateGe(r, cfg.threshold_half_open)

\* call_permitted letting a call through at the deadline itself.
Expired_at_deadline(until) == now >= until

\* call_permitted on Open(until, _): Instant::now() > *until
Expired(until) == now > until

\* Whether the hook h, having recorded into a state tagged tag and got rate r,
\* goes on to transition_state.
Decides(h, tag, r) ==
    CASE h = "on_success" /\ tag = "Closed"   -> TripClosedOnSuccess(r)
      [] h = "on_success" /\ tag = "HalfOpen" -> CloseHalfOpen(r)
      [] h = "on_error"   /\ tag = "Closed"   -> TripClosedOnError(r)
      [] h = "on_error"   /\ tag = "HalfOpen" -> TripHalfOpen(r)
      [] OTHER -> FALSE

\* The transition closures, re-opening with the flap count left as it was.
Successor_same_flap(h, s) ==
    CASE s.tag = "Closed" -> Open(now + ClosedWait, 1)
      [] s.tag = "HalfOpen" /\ h = "on_success" ->
            Closed(RingBufferNew(cfg.closed_len))
      [] s.tag = "HalfOpen" /\ h = "on_error" ->
            Open(now + HalfOpenWait(s.fc), s.fc)

\* The successor the hook's transition closure builds from old state s.
\* (fc is a u32; fc + 1 cannot overflow before 2^32 - 1 flaps in a row.)
Successor(h, s) ==
    CASE s.tag = "Closed" -> Open(now + ClosedWait, 1)
      [] s.tag = "HalfOpen" /\ h = "on_success" ->
            Closed(RingBufferNew(cfg.closed_len))
      [] s.tag = "HalfOpen" /\ h = "on_error" ->
            Open(now + HalfOpenWait(s.fc), s.fc + 1)

\* ------------------------------------------------------------- the breaker

Thresholds == {<<0, 1>>, <<1, 2>>, <<1, 1>>}
Lens       == 1 .. MaxLen
OpenWaits  == {1, 3}
Strategies == {"none", "same", "exp", "exp_capped"}

\* What RecloserBuilder can be asked to build.
Configs ==
    [ threshold_closed    : Thresholds,
      threshold_half_open : Thresholds,
      closed_len          : Lens,
      half_open_len       : Lens,
      open_wait           : OpenWaits,
      open_wait_strategy  : Strategies ]

\* struct RecloserFuture { recloser, future, predicate, checked }: whether
\* the thread holds one, and its one-shot flag.
NoFuture  == [alive |-> FALSE, checked |-> FALSE]
NewFuture == [alive |-> TRUE,  checked |-> FALSE]

\* poll leaving the flag as it found it.
MarkChecked_forgets(f) == f

\* *this.checked = true
MarkChecked(f) == [f EXCEPT !.checked = TRUE]

\* What a call has done so far: the call_permitted invocations and what the
\* last one returned, the runs of f (polls of the inner future) and the
\* record hooks invoked, each counted up to two; until f has run, whether
\* call_permitted's compare_exchange succeeded; what f returned while its
\* hook is running; for a RecloserFuture, the state cell at its first
\* poll; and whether its last record hook matched an Open state.
NoAudit ==
    [ permits |-> 0, permit |-> "none", cas |-> "none", runs |-> 0,
      records |-> 0, outcome |-> "none", first |-> 0, noop |-> FALSE ]

Inc(n) == Min(n + 1, 2)

\* The match on f()'s result handing every Err to on_error.
ChosenHook_ignores_predicate(ok, counted) ==
    IF ok THEN "on_success" ELSE "on_error"

\* The match on f()'s result: on_error for an Err the predicate counts,
\* on_success for an Ok and for an Err it does not count.
ChosenHook(ok, counted) ==
    IF ok \/ ~counted THEN "on_success" ELSE "on_error"

\* The events emitted about a State value: the started_ts of its started
\* events, and the ended_ts and duration_sec of its ended events.
NoEvents == [started |-> {}, ended |-> {}]

\* RecloserBuilder::build: Closed with a fresh counter of length closed_len;
\* with the feature "tracing", the wall clock is stored and a started event
\* is emitted.
Build(c) ==
    /\ cfg      = c
    /\ heap     = <<Closed(RingBufferNew(c.closed_len))>>
    /\ state    = 1
    /\ now      = 0
    /\ pc       = [t \in Threads |-> "idle"]
    /\ future   = [t \in Threads |-> NoFuture]
    /\ shared   = [t \in Threads |-> 0]
    /\ hook     = [t \in Threads |-> "none"]
    /\ rate     = [t \in Threads |-> Sentinel]
    /\ result   = [t \in Threads |-> "none"]
    /\ nrec     = <<0>>
    /\ built    = <<[by |-> "build", at |-> 0, from |-> 0]>>
    /\ audit    = [t \in Threads |-> NoAudit]
    /\ garbage  = [deferred |-> {}, destroyed |-> {}]
    /\ state_started_ts = now
    /\ events   = [p \in 1 .. MaxStates |->
                      IF p = 1 THEN [NoEvents EXCEPT !.started = {now}]
                      ELSE NoEvents]
    /\ swap_ts  = [t \in Threads |-> 0]
    /\ recovered = 0

\* A State value that is neither in the state cell nor loaded by a running
\* hook can no longer be read or written by anyone: the heap keeps its tag,
\* deadline and flap count and forgets its counter.
Sweep(h, st, sh) ==
    [p \in 1 .. Len(h) |->
        IF p = st \/ \E t \in Threads : sh[t] = p
        THEN h[p]
        ELSE [h[p] EXCEPT !.rb = NoRingBuffer]]

\* The replaced State value p destroyed as soon as it is replaced.
Retire_at_once(p) ==
    garbage' = [garbage EXCEPT !.destroyed = @ \cup {p}]

\* let _swapped = ..: the pointer to the replaced State value p that
\* compare_exchange returns in Ok is not used; nothing is handed to the
\* collector.
Retire(p) ==
    garbage' = garbage

\* The state cell swapped without a comparison, as Atomic::swap does.
CompareExchange_swap(t, new_state, sh) ==
    /\ Len(heap) < MaxStates
    /\ Retire(state)
    /\ state'    = Len(heap) + 1
    /\ heap'     = Sweep(Append(heap, new_state), Len(heap) + 1, sh)
    /\ nrec'     = Append(nrec, 0)
    /\ built'    = Append(built,
           [by |-> IF pc[t] = "permit_open" THEN "call_permitted" ELSE hook[t],
            at |-> now, from |-> shared[t]])

\* self.state.compare_exchange(shared, Owned::new(new_state), ..) by thread t,
\* which then holds the pointers sh: the cell moves to the new value only if
\* it still holds the value this hook loaded; a loser's new_state is dropped
\* and nothing changes.
CompareExchange(t, new_state, sh) ==
    IF state = shared[t]
    THEN /\ Len(heap) < MaxStates
         /\ Retire(shared[t])
         /\ state'    = Len(heap) + 1
         /\ heap'     = Sweep(Append(heap, new_state), Len(heap) + 1, sh)
         /\ nrec'     = Append(nrec, 0)
         /\ built'    = Append(built,
                [by |-> IF pc[t] = "permit_open" THEN "call_permitted" ELSE hook[t],
                 at |-> now, from |-> shared[t]])
    ELSE /\ heap' = Sweep(heap, state, sh)
         /\ UNCHANGED <<state, nrec, built, garbage>>

\* The hook's locals once call_with (or the resolving poll) has returned
\* res: the guard is dropped, and so is the future.
Return(t, res) ==
    /\ pc'     = [pc EXCEPT ![t] = "idle"]
    /\ future' = [future EXCEPT ![t] = NoFuture]
    /\ shared' = [shared EXCEPT ![t] = 0]
    /\ hook'   = [hook EXCEPT ![t] = "none"]
    /\ rate'   = [rate EXCEPT ![t] = Sentinel]
    /\ result' = [result EXCEPT ![t] = res]

Dropped(t) == [shared EXCEPT ![t] = 0]

\* The caller going on to f() although call_permitted returned false.
Reject_falls_through(t) ==
    /\ pc'     = [pc EXCEPT ![t] = "run"]
    /\ result' = [result EXCEPT ![t] = "Rejected"]
    /\ audit'  = [audit EXCEPT ![t].permit = "false"]
    /\ UNCHANGED <<heap, state, nrec, built, garbage, future, shared, hook,
                   rate>>

\* if !call_permitted(guard) { return Err(Error::Rejected) }, and
\* return Poll::Ready(Err(Error::Rejected)) in poll.
Reject(t) ==
    /\ Return(t, "Rejected")
    /\ heap'  = Sweep(heap, state, Dropped(t))
    /\ audit' = [audit EXCEPT ![t].permit = "false"]
    /\ UNCHANGED <<state, nrec, built, garbage>>

\* call_permitted's load of the state cell, by a call whose history is a.
\* Closed and HalfOpen permit at once; Open goes on to read the clock.
CallPermitted(t, a) ==
    /\ shared' = [shared EXCEPT ![t] = state]
    /\ pc' = [pc EXCEPT ![t] =
                IF heap[state].tag = "Open" THEN "permit_open" ELSE "run"]
    /\ audit' = [audit EXCEPT ![t] =
                [a EXCEPT !.permits = Inc(@),
                          !.permit  = IF heap[state].tag = "Open"
                                      THEN "none" ELSE "true"]]
    /\ UNCHANGED <<cfg, recovered, heap, state, now, hook, rate, nrec, built, rbvars, trvars, garbage>>

\* call_with, up to call_permitted's load of the state cell.
CallPermittedLoad(t) ==
    /\ pc[t] = "idle"
    /\ CallPermitted(t, NoAudit)
    /\ result' = [result EXCEPT ![t] = "none"]
    /\ UNCHANGED future

\* AsyncRecloser::call_with: a RecloserFuture that has not been polled.
AsyncCallWith(t) ==
    /\ pc[t] = "idle"
    /\ pc'     = [pc EXCEPT ![t] = "pending"]
    /\ future' = [future EXCEPT ![t] = NewFuture]
    /\ result' = [result EXCEPT ![t] = "none"]
    /\ audit'  = [audit EXCEPT ![t] = NoAudit]
    /\ UNCHANGED <<cfg, recovered, heap, state, now, shared, hook, rate, nrec, built,
                   rbvars, trvars, garbage>>

\* RecloserFuture::poll, up to the poll of the inner future: the permit
\* check runs if the flag is not set, and sets it.
Poll(t) ==
    /\ pc[t] = "pending"
    /\ IF ~future[t].checked
       THEN /\ future' = [future EXCEPT ![t] = MarkChecked(@)]
            /\ CallPermitted(t, [audit[t] EXCEPT !.first = state])
            /\ UNCHANGED result
       ELSE /\ pc' = [pc EXCEPT ![t] = "run"]
            /\ UNCHANGED <<cfg, recovered, heap, state, now, future, shared, hook, rate,
                           result, nrec, built, audit, rbvars, trvars, garbage>>

\* call_permitted on the Open state it loaded: past the deadline it tries to
\* publish HalfOpen and permits whether or not it won; otherwise the call is
\* rejected.
CallPermittedOpen(t) ==
    /\ pc[t] = "permit_open"
    /\ LET s == heap[shared[t]] IN
       IF Expired(s.until)
       THEN /\ CompareExchange(t,
                   HalfOpen(RingBufferNew(cfg.half_open_len), s.fc), shared)
            /\ pc' = [pc EXCEPT ![t] = "run"]
            /\ audit' = [audit EXCEPT
                            ![t].permit = "true",
                            ![t].cas = IF state = shared[t] THEN "won"
                                       ELSE "lost"]
            /\ UNCHANGED <<future, shared, hook, rate, result>>
       ELSE Reject(t)
    /\ UNCHANGED <<cfg, recovered, now, rbvars, trvars>>

\* The inner future returns Poll::Pending, and so does poll: its guard is
\* dropped.
PollPending(t) ==
    /\ pc[t] = "run"
    /\ future[t].alive
    /\ pc'     = [pc EXCEPT ![t] = "pending"]
    /\ shared' = Dropped(t)
    /\ heap'   = Sweep(heap, state, Dropped(t))
    /\ audit'  = [audit EXCEPT ![t].runs = Inc(@), ![t].cas = "none"]
    /\ UNCHANGED <<cfg, recovered, state, now, future, hook, rate, result, nrec, built,
                   rbvars, trvars, garbage>>

\* Dropping the RecloserFuture counted as a failure of the call.
DropFuture_records_failure(t) ==
    /\ pc[t] = "pending"
    /\ pc'     = [pc EXCEPT ![t] = "idle"]
    /\ future' = [future EXCEPT ![t] = NoFuture]
    /\ result' = [result EXCEPT ![t] = "Dropped"]
    /\ heap'   = IF heap[state].tag = "Open" THEN heap
                 ELSE [heap EXCEPT ![state].rb =
                          set_current(heap[state].rb, TRUE).rb]
    /\ UNCHANGED <<cfg, recovered, state, now, shared, hook, rate, nrec, built, audit,
                   rbvars, trvars, garbage>>

\* The RecloserFuture is dropped between two polls.
DropFuture(t) ==
    /\ pc[t] = "pending"
    /\ pc'     = [pc EXCEPT ![t] = "idle"]
    /\ future' = [future EXCEPT ![t] = NoFuture]
    /\ result' = [result EXCEPT ![t] = "Dropped"]
    /\ UNCHANGED <<cfg, recovered, heap, state, now, shared, hook, rate, nrec, built,
                   audit, rbvars, trvars, garbage>>

\* A hook with work to do on every state.
HookIsNoOp_never(s) == FALSE

\* State::Open(_, _) => () in on_success and on_error.
HookIsNoOp(s) == s.tag = "Open"

\* f() returns (the inner future resolves to) Ok (ok) or Err, and the
\* predicate says whether the Err counts; the chosen hook loads the state
\* cell.  On Open the hook is a no-op.
RunAndLoad(t, ok, counted) ==
    /\ pc[t] = "run"
    /\ LET h   == ChosenHook(ok, counted)
           res == IF ok THEN "Ok" ELSE "Inner"
           a   == [audit[t] EXCEPT !.runs = Inc(@), !.records = Inc(@),
                                   !.cas = "none", !.noop = FALSE]
       IN  IF HookIsNoOp(heap[state])
           THEN /\ Return(t, res)
                /\ heap'  = Sweep(heap, state, Dropped(t))
                /\ audit' = [audit EXCEPT ![t] = [a EXCEPT !.noop = TRUE]]
           ELSE /\ shared' = [shared EXCEPT ![t] = state]
                /\ hook'   = [hook EXCEPT ![t] = h]
                /\ result' = [result EXCEPT ![t] = res]
                /\ pc'     = [pc EXCEPT ![t] = "record"]
                /\ heap'   = Sweep(heap, state, [shared EXCEPT ![t] = state])
                /\ audit'  = [audit EXCEPT ![t] =
                                [a EXCEPT !.outcome =
                                    IF ok THEN "Ok"
                                    ELSE IF counted THEN "ErrCounted"
                                    ELSE "ErrIgnored"]]
                /\ UNCHANGED <<rate, future>>
    /\ UNCHANGED <<cfg, recovered, state, now, nrec, built, rbvars, trvars, garbage>>

\* rb.set_current(..) on the counter of the state the hook loaded, and the
\* hook's test of the returned rate.  The spin lock is taken first; on a
\* counter of length zero self.ring[i] is out of bounds (and self.len - 1
\* underflows), so the thread panics with the lock held.
Record(t) ==
    /\ pc[t] = "record"
    /\ ~heap[shared[t]].rb.spin_lock
    /\ LET p == shared[t]
           r == set_current(heap[p].rb, hook[t] = "on_error")
           h == [heap EXCEPT ![p].rb = r.rb]
       IN  IF heap[p].rb.len = 0
           THEN /\ pc'     = [pc EXCEPT ![t] = "panicked"]
                /\ future' = [future EXCEPT ![t] = NoFuture]
                /\ shared' = Dropped(t)
                /\ result' = [result EXCEPT ![t] = "Panicked"]
                /\ heap'   = Sweep([heap EXCEPT ![p].rb.spin_lock = TRUE],
                                   state, Dropped(t))
                /\ UNCHANGED <<hook, rate, nrec, audit>>
           ELSE /\ nrec' = [nrec EXCEPT ![p] = Min(@ + 1, heap[p].rb.len + 1)]
                /\ IF Decides(hook[t], heap[p].tag, r.rate)
                   THEN /\ pc'   = [pc EXCEPT ![t] = "transition"]
                        /\ rate' = [rate EXCEPT ![t] = r.rate]
                        /\ heap' = h
                        /\ UNCHANGED <<future, shared, hook, result, audit>>
                   ELSE /\ Return(t, result[t])
                        /\ heap'  = Sweep(h, state, Dropped(t))
                        /\ audit' = [audit EXCEPT ![t].outcome = "none"]
    /\ UNCHANGED <<cfg, recovered, state, now, built, rbvars, trvars, garbage>>

\* transition_state: build the successor (reading the clock) and try to
\* publish it; then the hook and call_with return.
Transition(t) ==
    /\ pc[t] = "transition"
    /\ CompareExchange(t, Successor(hook[t], heap[shared[t]]), Dropped(t))
    /\ Return(t, result[t])
    /\ audit' = [audit EXCEPT ![t].outcome = "none"]
    /\ UNCHANGED <<cfg, recovered, now, rbvars, trvars>>

\* transition_state built with the feature "tracing": a thread whose
\* compare_exchange succeeded goes on, still under its guard, to the
\* telemetry.
TracedTransition(t) ==
    /\ pc[t] = "transition"
    /\ IF state = shared[t]
       THEN /\ CompareExchange(t, Successor(hook[t], heap[shared[t]]), shared)
            /\ pc' = [pc EXCEPT ![t] = "swap_ts"]
            /\ UNCHANGED <<cfg, recovered, now, future, shared, hook, rate, result,
                           audit, rbvars, trvars>>
       ELSE Transition(t)

\* call_permitted built with the feature "tracing", likewise.
TracedCallPermittedOpen(t) ==
    /\ pc[t] = "permit_open"
    /\ LET s == heap[shared[t]] IN
       IF Expired(s.until) /\ state = shared[t]
       THEN /\ CompareExchange(t,
                   HalfOpen(RingBufferNew(cfg.half_open_len), s.fc), shared)
            /\ pc' = [pc EXCEPT ![t] = "swap_ts"]
            /\ audit' = [audit EXCEPT ![t].cas = "won"]
            /\ UNCHANGED <<cfg, recovered, now, future, shared, hook, rate, result,
                           rbvars, trvars>>
       ELSE CallPermittedOpen(t)

\* let swap_ts = SystemTime::now().duration_since(UNIX_EPOCH)..as_secs()
ReadSwapTs(t) ==
    /\ pc[t] = "swap_ts"
    /\ swap_ts' = [swap_ts EXCEPT ![t] = now]
    /\ pc' = [pc EXCEPT ![t] = "emit"]
    /\ UNCHANGED <<cfg, recovered, heap, state, now, future, shared, hook, rate, result,
                   nrec, built, audit, garbage, state_started_ts, events,
                   rbvars>>

\* What follows the telemetry: call_permitted returns true and call_with
\* runs f; transition_state, the hook and call_with return.
AfterTelemetry(t) ==
    IF hook[t] = "none"
    THEN /\ pc' = [pc EXCEPT ![t] = "run"]
         /\ audit' = [audit EXCEPT ![t].permit = "true"]
         /\ UNCHANGED <<heap, future, shared, hook, rate, result>>
    ELSE /\ Return(t, result[t])
         /\ heap'  = Sweep(heap, state, Dropped(t))
         /\ audit' = [audit EXCEPT ![t].outcome = "none"]

\* let old_state_ts = self.state_started_ts.swap(swap_ts, Relaxed), and the
\* two events: the old state's, with ended_ts = swap_ts and duration_sec =
\* swap_ts - old_state_ts, and the new state's, with started_ts = swap_ts.
\* The subtraction is on u64: when old_state_ts is the larger, a build with
\* overflow checks panics before either event is emitted, and a build
\* without them emits the difference modulo 2^64, written here as the
\* negative number it is congruent to.
SwapStartedTs(t, overflow_checks) ==
    /\ pc[t] = "emit"
    /\ state_started_ts' = swap_ts[t]
    /\ swap_ts' = [swap_ts EXCEPT ![t] = 0]
    /\ LET old_state_ts == state_started_ts
           p == shared[t]
       IN  IF swap_ts[t] < old_state_ts /\ overflow_checks
           THEN /\ pc'     = [pc EXCEPT ![t] = "panicked"]
                /\ shared' = Dropped(t)
                /\ result' = [result EXCEPT ![t] = "Panicked"]
                /\ heap'   = Sweep(heap, state, Dropped(t))
                /\ UNCHANGED <<future, hook, rate, audit, events>>
           ELSE /\ events' =
                     [events EXCEPT
                        ![p].ended = @ \cup
                            {[ended_ts |-> swap_ts[t],
                              duration_sec |-> swap_ts[t] - old_state_ts]},
                        ![p + 1].started = @ \cup {swap_ts[t]}]
                /\ AfterTelemetry(t)
    /\ UNCHANGED <<cfg, recovered, state, now, nrec, built, garbage, rbvars>>

\* The clock advances.  Only the distance between the clock and the deadline
\* of the live Open state is ever observed (call_permitted compares the two,
\* the transition closures add a wait to the clock), so the clock is moved
\* only while an Open deadline is pending, and up to one second past it.
Tick ==
    /\ heap[state].tag = "Open"
    /\ now <= heap[state].until
    /\ now' = now + 1
    /\ UNCHANGED <<cfg, recovered, heap, state, pc, future, shared, hook, rate, result,
                   nrec, built, audit, rbvars, trvars, garbage>>

\* ------------------------------------------------- a ring buffer on its own

\* One set_current(val_new) on rbuf, the calls made one after the other.
SetCurrent(val_new) ==
    /\ Len(rhist) < MaxRecords
    /\ LET r == set_current(rbuf, val_new)
       IN  /\ rbuf' = r.rb
           /\ rret' = r.rate
    /\ rhist' = Append(rhist, val_new)
    /\ UNCHANGED <<brvars, rpc, rloc>>

\* The locals of set_current: the value to record, the index read and the
\* one to store, the new cardinality and the rate to return; k is the place
\* of the call in the order in which the lock was taken (history).
NoLocals ==
    [ val_new |-> FALSE, i |-> 0, j |-> 0, card_new |-> 0, rate |-> Sentinel,
      k |-> 0 ]

\* RingBuffer::new(len)
RingNew(len) ==
    /\ rbuf  = RingBufferNew(len)
    /\ rhist = <<>>
    /\ rret  = Sentinel
    /\ rpc   = [t \in Threads |-> "idle"]
    /\ rloc  = [t \in Threads |-> NoLocals]

\* RecloserBuilder::new: the default configuration, with the windows and the
\* wait shortened.
DefaultConfig ==
    [ threshold_closed    |-> <<1, 2>>,
      threshold_half_open |-> <<1, 2>>,
      closed_len          |-> 1,
      half_open_len       |-> 1,
      open_wait           |-> 1,
      open_wait_strategy  |-> "none" ]

InitRB == Build(DefaultConfig) /\ \E len \in Lens : RingNew(len)
NextRB == \E val_new \in BOOLEAN : SetCurrent(val_new)
SpecRB == InitRB /\ [][NextRB]_vars

\* ------------------------------------------- a ring buffer shared by threads

\* A lock that lets every caller in.
LockFree_ignored(rb) == TRUE

\* while self.spin_lock.swap(true, Acquire) { spin_loop() }: the swap that
\* ends the loop found the lock free.
LockFree(rb) == ~rb.spin_lock

\* The swap that takes the lock for thread t's set_current(val_new) (a swap
\* that finds it taken changes nothing).
TakeLock(t, val_new) ==
    /\ Len(rhist) < MaxRecords
    /\ LockFree(rbuf)
    /\ rbuf'  = [rbuf EXCEPT !.spin_lock = TRUE]
    /\ rhist' = Append(rhist, val_new)
    /\ rpc'   = [rpc EXCEPT ![t] = "locked"]
    /\ rloc'  = [rloc EXCEPT ![t] =
                    [NoLocals EXCEPT !.val_new = val_new,
                                     !.k = Len(rhist) + 1]]
    /\ UNCHANGED <<brvars, rret>>

\* set_current(val_new) by thread t, up to the swap that takes the lock.
Acquire(t, val_new) ==
    /\ rpc[t] = "idle"
    /\ TakeLock(t, val_new)

\* The loads of index, ring[i], card and filling, and filling.fetch_add(1)
\* while the window fills.
LoadCounters(t) ==
    /\ rpc[t] = "locked"
    /\ LET r == set_current(rbuf, rloc[t].val_new)
       IN  /\ rloc' = [rloc EXCEPT ![t].i        = rbuf.index,
                                   ![t].j        = r.rb.index,
                                   ![t].card_new = r.rb.card,
                                   ![t].rate     = r.rate]
           /\ rbuf' = [rbuf EXCEPT !.filling = r.rb.filling]
    /\ rpc' = [rpc EXCEPT ![t] = "loaded"]
    /\ UNCHANGED <<brvars, rhist, rret>>

\* The stores to ring[i], index and card.
StoreCounters(t) ==
    /\ rpc[t] = "loaded"
    /\ rbuf' = [rbuf EXCEPT !.ring[rloc[t].i] = rloc[t].val_new,
                            !.index = rloc[t].j,
                            !.card  = rloc[t].card_new]
    /\ rpc' = [rpc EXCEPT ![t] = "stored"]
    /\ UNCHANGED <<brvars, rhist, rret, rloc>>

\* A return from set_current that leaves the lock taken.
Release_keeps_lock(t) ==
    /\ rpc[t] = "stored"
    /\ rret' = rloc[t].rate
    /\ rpc'  = [rpc EXCEPT ![t] = "idle"]
    /\ UNCHANGED <<brvars, rbuf, rhist, rloc>>

\* self.spin_lock.store(false, Release), and the rate is returned.
Release(t) ==
    /\ rpc[t] = "stored"
    /\ rbuf' = [rbuf EXCEPT !.spin_lock = FALSE]
    /\ rret' = rloc[t].rate
    /\ rpc'  = [rpc EXCEPT ![t] = "idle"]
    /\ UNCHANGED <<brvars, rhist, rloc>>

NextShared ==
    \/ \E t \in Threads, val_new \in BOOLEAN : Acquire(t, val_new)
    \/ \E t \in Threads : LoadCounters(t)
    \/ \E t \in Threads : StoreCounters(t)
    \/ \E t \in Threads : Release(t)
SpecShared == InitRB /\ [][NextShared]_vars

\* The calls threads have made and that have not taken the lock yet.
Spinning == {t \in Threads : rpc[t] = "spin"}

\* Thread t calls set_current(val_new) and is at the head of the loop; the
\* threads make MaxRecords calls in all.
Call(t, val_new) ==
    /\ rpc[t] = "idle"
    /\ Len(rhist) + Cardinality(Spinning) < MaxRecords
    /\ rpc'  = [rpc EXCEPT ![t] = "spin"]
    /\ rloc' = [rloc EXCEPT ![t] = [NoLocals EXCEPT !.val_new = val_new]]
    /\ UNCHANGED <<brvars, rbuf, rhist, rret>>

\* while self.spin_lock.swap(true, Acquire) { spin_loop() }
Spin(t) ==
    /\ rpc[t] = "spin"
    /\ TakeLock(t, rloc[t].val_new)

\* The steps of thread t inside set_current.
InSetCurrent(t) ==
    \/ Spin(t)
    \/ LoadCounters(t)
    \/ StoreCounters(t)
    \/ Release(t)

\* Threads that each make finitely many calls, every thread inside
\* set_current taking a step at last if it can take one from then on.
NextSpin ==
    \/ \E t \in Threads, val_new \in BOOLEAN : Call(t, val_new)
    \/ \E t \in Threads : InSetCurrent(t)
SpecSpin ==
    /\ InitRB
    /\ [][NextSpin]_vars
    /\ \A t \in Threads : WF_vars(InSetCurrent(t))

\* ----------------------------------------------------------- specifications

\* One caller at a time, every configuration.
Caller == "t1"

InitSeq == (\E c \in Configs : Build(c)) /\ RingNew(1)
NextSeq ==
    \/ Tick
    \/ CallPermittedLoad(Caller)
    \/ CallPermittedOpen(Caller)
    \/ \E ok \in BOOLEAN, counted \in BOOLEAN : RunAndLoad(Caller, ok, counted)
    \/ Record(Caller)
    \/ Transition(Caller)
SpecSeq == InitSeq /\ [][NextSeq]_vars

\* The configurations of the tests recloser_correctness and
\* recloser_correctness_with_strategy (error_rate(0.5), equal window
\* lengths, open_wait of 1 s), without and with a strategy.
SharedConfigs ==
    { c \in Configs :
        /\ c.threshold_closed = <<1, 2>>
        /\ c.threshold_half_open = <<1, 2>>
        /\ c.closed_len = c.half_open_len
        /\ c.open_wait = 1
        /\ c.open_wait_strategy \in {"none", "exp"} }

\* Threads sharing one breaker.
Init == (\E c \in SharedConfigs : Build(c)) /\ RingNew(1)
Next ==
    \/ Tick
    \/ \E t \in Threads : CallPermittedLoad(t)
    \/ \E t \in Threads : CallPermittedOpen(t)
    \/ \E t \in Threads, ok \in BOOLEAN, counted \in BOOLEAN :
          RunAndLoad(t, ok, counted)
    \/ \E t \in Threads : Record(t)
    \/ \E t \in Threads : Transition(t)
Spec == Init /\ [][Next]_vars

\* The configurations without a strategy and with an open_wait of 1 s (the
\* tests of async.rs install no strategy).
AsyncConfigs ==
    { c \in Configs : c.open_wait = 1 /\ c.open_wait_strategy = "none" }

\* One caller at a time, calling through call_with or through a RecloserFuture
\* whose inner future may stay pending and which may be dropped.
InitAsync == (\E c \in AsyncConfigs : Build(c)) /\ RingNew(1)
NextAsync ==
    \/ Tick
    \/ CallPermittedLoad(Caller)
    \/ AsyncCallWith(Caller)
    \/ Poll(Caller)
    \/ CallPermittedOpen(Caller)
    \/ PollPending(Caller)
    \/ DropFuture(Caller)
    \/ \E ok \in BOOLEAN, counted \in BOOLEAN : RunAndLoad(Caller, ok, counted)
    \/ Record(Caller)
    \/ Transition(Caller)
SpecAsync == InitAsync /\ [][NextAsync]_vars

\* The hook that records val_new: on_error records true, on_success false.
HookOf(val_new) == IF val_new THEN "on_error" ELSE "on_success"

\* The hook that made the last record into rbuf, the counter of a HalfOpen
\* state, went on to transition_state: the state has been replaced.
Left ==
    /\ rhist # <<>>
    /\ Decides(HookOf(rhist[Len(rhist)]), "HalfOpen", rret)

\* on_success or on_error on a HalfOpen state that is still in place, its
\* counter being rbuf: one caller at a time records val_new and tests the
\* rate returned.
Probe(val_new) ==
    /\ ~Left
    /\ SetCurrent(val_new)

\* A HalfOpen state on its own, from its publication to its replacement,
\* for every sequence of outcomes.
InitProbe == \E c \in AsyncConfigs : Build(c) /\ RingNew(c.half_open_len)
NextProbe == \E val_new \in BOOLEAN : Probe(val_new)
SpecProbe == InitProbe /\ [][NextProbe]_vars

\* One caller at a time whose predicate counts no error: |_| false.
NextNever ==
    \/ Tick
    \/ CallPermittedLoad(Caller)
    \/ CallPermittedOpen(Caller)
    \/ \E ok \in BOOLEAN : RunAndLoad(Caller, ok, FALSE)
    \/ Record(Caller)
    \/ Transition(Caller)
SpecNever == InitSeq /\ [][NextNever]_vars

\* The wrapped function stops failing, for good.
Recover ==
    /\ recovered = 0
    /\ recovered' = Len(heap)
    /\ UNCHANGED <<cfg, heap, state, now, pc, future, shared, hook, rate,
                   result, nrec, built, audit, garbage, trvars, rbvars>>

\* f() returns, Ok if it cannot fail any more.
RunOrRecovered ==
    \E ok \in BOOLEAN, counted \in BOOLEAN :
        /\ recovered > 0 => ok
        /\ RunAndLoad(Caller, ok, counted)

\* One caller that keeps calling a function that may stop failing, and a
\* clock that keeps advancing while a deadline is pending: every step of a
\* call is taken at last, and so is every tick.  The configurations are
\* those without a strategy and with an open_wait of 1 s.
CallerStep ==
    \/ CallPermittedLoad(Caller)
    \/ CallPermittedOpen(Caller)
    \/ RunOrRecovered
    \/ Record(Caller)
    \/ Transition(Caller)
NextLive ==
    \/ Tick
    \/ Recover
    \/ CallerStep
SpecLive ==
    /\ InitAsync
    /\ [][NextLive]_vars
    /\ WF_vars(Tick)
    /\ WF_vars(CallerStep)

\* Threads sharing one breaker built with the feature "tracing", with
\* windows of one call and no strategy, called through Recloser::call (every
\* Err counts).
TraceConfigs ==
    { c \in SharedConfigs : c.closed_len = 1 /\ c.open_wait_strategy = "none" }

InitTrace == (\E c \in TraceConfigs : Build(c)) /\ RingNew(1)
NextTrace ==
    \/ Tick
    \/ \E t \in Threads : CallPermittedLoad(t)
    \/ \E t \in Threads : TracedCallPermittedOpen(t)
    \/ \E t \in Threads, ok \in BOOLEAN : RunAndLoad(t, ok, TRUE)
    \/ \E t \in Threads : Record(t)
    \/ \E t \in Threads : TracedTransition(t)
    \/ \E t \in Threads : ReadSwapTs(t)
    \/ \E t \in Threads, overflow_checks \in BOOLEAN :
          SwapStartedTs(t, overflow_checks)
SpecTrace == InitTrace /\ [][NextTrace]_vars

\* What closed_len(usize) and half_open_len(usize) take: any length, zero
\* included.  The configurations with a window of length zero.
ZeroConfigs ==
    { c \in [ threshold_closed    : Thresholds,
              threshold_half_open : Thresholds,
              closed_len          : 0 .. MaxLen,
              half_open_len       : 0 .. MaxLen,
              open_wait           : OpenWaits,
              open_wait_strategy  : {"none"} ] :
        c.closed_len = 0 \/ c.half_open_len = 0 }

InitZero == (\E c \in ZeroConfigs : Build(c)) /\ RingNew(1)
SpecZero == InitZero /\ [][NextSeq]_vars

\* =================================================================== claims

\* The number of failures among the last n outcomes recorded into rbuf.
RECURSIVE Failures(_, _)
Failures(h, n) ==
    IF n = 0 \/ h = <<>> THEN 0
    ELSE to_int(h[Len(h)]) + Failures(SubSeq(h, 1, Len(h) - 1), n - 1)

Calls == Len(rhist)

\* C6 as stated: on a RingBuffer of length L, for every k >= L the k-th
\* set_current call returns (failures among the last L outcomes) / L.
C6_AsStated ==
    (Calls >= 1 /\ Calls >= rbuf.len) =>
        rret = <<Failures(rhist, rbuf.len), rbuf.len>>

\* C6 amended: the same for every k > L; the L-th call itself still returns
\* the sentinel.
C6_RateIsWindowShare ==
    /\ Calls > rbuf.len => rret = <<Failures(rhist, rbuf.len), rbuf.len>>
    /\ (Calls >= 1 /\ Calls = rbuf.len) => rret = Sentinel

\* More calls than the window is long, the window holding failures and
\* successes, and a failure has been evicted.
C6_Witness ==
    /\ Calls > rbuf.len + 1
    /\ rbuf.len > 1
    /\ rhist[1]
    /\ Failures(rhist, rbuf.len) = 1

\* C7: the k-th set_current call returns the sentinel iff k <= L; filling
\* counts the calls up to L and stays there; every call after the L-th
\* returns a rate within [0, 1].
C7_SentinelWhileFilling ==
    /\ Calls >= 1 => (rret = Sentinel <=> Calls <= rbuf.len)
    /\ rbuf.filling = Min(Calls, rbuf.len)
    /\ Calls > rbuf.len =>
          RateGe(rret, <<0, 1>>) /\ RateLe(rret, <<1, 1>>)

\* The first call after the window filled, all of them failures.
C7_Witness ==
    /\ Calls = rbuf.len + 1
    /\ rbuf.len > 1
    /\ rret = <<rbuf.len, rbuf.len>>

\* The failure rate of the window of State value p.
WindowRate(p) == <<heap[p].rb.card, heap[p].rb.len>>

\* threshold_closed lies in (0, 1), the range the builder documents.
UsualThreshold ==
    /\ RateGt(cfg.threshold_closed, <<0, 1>>)
    /\ RateGt(<<1, 1>>, cfg.threshold_closed)

\* C1 as stated: from a fresh breaker, once closed_len outcomes with a
\* failure rate >= threshold_closed have been recorded, the breaker is Open
\* (already for a threshold within (0, 1)).
C1_AsStated ==
    ( /\ pc[Caller] = "idle"
      /\ state = 1
      /\ nrec[1] = cfg.closed_len
      /\ UsualThreshold
      /\ RateGe(WindowRate(1), cfg.threshold_closed) )
    => heap[state].tag = "Open"

\* C1 amended: from a fresh breaker the first closed_len records never trip;
\* the breaker is Open, published once with flap count 1, as soon as a later
\* record leaves a window whose failure rate is >= threshold_closed.
C1_TripsAfterFullWindow ==
    /\ nrec[1] <= cfg.closed_len => (state = 1 /\ Len(heap) = 1)
    /\ ( /\ state = 1
         /\ pc[Caller] # "transition"
         /\ nrec[1] > cfg.closed_len )
       => ~RateGe(WindowRate(1), cfg.threshold_closed)
    /\ (state = 1 /\ pc[Caller] = "transition")
       => RateGe(WindowRate(1), cfg.threshold_closed)
    /\ Len(heap) >= 2 =>
          /\ heap[2] = Open(built[2].at + cfg.open_wait, 1)
          /\ nrec[1] = cfg.closed_len + 1
    /\ state = 2 => Len(heap) = 2

\* The breaker has just tripped, on the record after its window of two
\* filled.
C1_Witness ==
    /\ state = 2
    /\ heap[2].tag = "Open"
    /\ cfg.closed_len = 2
    /\ cfg.threshold_closed = <<1, 2>>
    /\ pc[Caller] = "idle"
    /\ result[Caller] = "Inner"

\* A step in which call_permitted, having loaded an Open state, returns.
PermitOpenReturns == pc[Caller] = "permit_open" /\ pc'[Caller] # "permit_open"

\* call_permitted rejected and left the state cell alone.
PermitRejected ==
    /\ pc'[Caller] = "idle"
    /\ result'[Caller] = "Rejected"
    /\ state' = state
    /\ Len(heap') = Len(heap)

\* call_permitted permitted and published HalfOpen(fresh counter, fc).
PermitHalfOpens(fc) ==
    /\ pc'[Caller] = "run"
    /\ state' = Len(heap) + 1
    /\ heap'[state'] = HalfOpen(RingBufferNew(cfg.half_open_len), fc)

\* C2 as stated: in Open(deadline, flap) call_permitted returns false when
\* the clock is before the deadline, and true, publishing HalfOpen, when the
\* clock is at or after the deadline.
C2_AsStated ==
    [][ PermitOpenReturns =>
          IF now < heap[state].until
          THEN PermitRejected
          ELSE PermitHalfOpens(heap[state].fc) ]_vars

\* C2 amended: call_permitted returns false when the clock is at or before
\* the deadline, and true, publishing HalfOpen(fresh counter of length
\* half_open_len, flap) in the same call, when the clock is strictly after.
C2_PermitsStrictlyAfterDeadline ==
    [][ PermitOpenReturns =>
          IF now <= heap[state].until
          THEN PermitRejected
          ELSE PermitHalfOpens(heap[state].fc) ]_vars

\* A call was rejected at the deadline itself.
C2_Witness ==
    /\ heap[state].tag = "Open"
    /\ now = heap[state].until
    /\ pc[Caller] = "idle"
    /\ result[Caller] = "Rejected"
    /\ heap[state].fc = 2

\* The State values that have been replaced, in the order of publication:
\* heap[i] was replaced by heap[i + 1].
Replaced == 1 .. Len(heap) - 1

\* C3: under every interleaving, Closed -> Open publishes flap count 1,
\* Open -> HalfOpen keeps the flap count, HalfOpen -> Open adds one to it,
\* and the first Open after any Closed has flap count 1 again.
C3_FlapCount ==
    \A i \in Replaced :
        /\ (heap[i].tag = "Closed" /\ heap[i + 1].tag = "Open")
              => heap[i + 1].fc = 1
        /\ (heap[i].tag = "Open" /\ heap[i + 1].tag = "HalfOpen")
              => heap[i + 1].fc = heap[i].fc
        /\ (heap[i].tag = "HalfOpen" /\ heap[i + 1].tag = "Open")
              => heap[i + 1].fc = heap[i].fc + 1
        /\ \A j \in i + 1 .. Len(heap) :
              ( /\ heap[i].tag = "Closed"
                /\ heap[j].tag = "Open"
                /\ \A k \in i + 1 .. j - 1 : heap[k].tag # "Open" )
              => heap[j].fc = 1

\* The breaker re-opened from HalfOpen(_, 1), closed, and tripped again,
\* with a second thread in the middle of a call.
C3_Witness ==
    /\ Len(heap) = 6
    /\ heap[3].tag = "HalfOpen"
    /\ heap[4] = Open(heap[4].until, 2)
    /\ heap[5].tag = "HalfOpen"
    /\ heap[6].tag = "Closed"
    /\ \E t \in Threads : pc[t] = "transition" /\ shared[t] = 5

\* The length of the window a State value tagged tag owns.
WindowLen(tag) ==
    IF tag = "Closed" THEN cfg.closed_len ELSE cfg.half_open_len

\* C8: under every interleaving, no hook goes on to transition_state with
\* the sentinel as its rate, and every Closed or HalfOpen value that has
\* been replaced had more outcomes recorded into its counter than its
\* window is long.
C8_NoTransitionWhileFilling ==
    /\ \A t \in Threads :
          pc[t] = "transition" => RateGt(rate[t], Sentinel)
    /\ \A i \in Replaced :
          heap[i].tag \in {"Closed", "HalfOpen"}
              => nrec[i] > WindowLen(heap[i].tag)

\* A HalfOpen value has been replaced, and a hook that recorded into it
\* late still wants to replace it.
C8_Witness ==
    /\ Len(heap) >= 4
    /\ heap[3].tag = "HalfOpen"
    /\ \E t \in Threads : pc[t] = "transition" /\ shared[t] = 3

\* The wait that went into the deadline of the Open value heap[i].
WaitOf(i) == heap[i].until - built[i].at

\* HalfOpen -> Open transitions: heap[i] is the HalfOpen value left.
Reopened == {i \in Replaced : heap[i].tag = "HalfOpen" /\ heap[i + 1].tag = "Open"}

\* Closed -> Open transitions: heap[i] is the Closed value left.
Tripped == {i \in Replaced : heap[i].tag = "Closed" /\ heap[i + 1].tag = "Open"}

C5_BaseWait ==
    /\ cfg.open_wait_strategy = "none" =>
          \A i \in Reopened \cup Tripped :
              heap[i + 1].until = built[i + 1].at + cfg.open_wait
    /\ \A i \in Tripped :
          heap[i + 1].until = built[i + 1].at + cfg.open_wait

\* Without a strategy the breaker re-opened from HalfOpen(_, 2), at a clock
\* other than zero.
C5_Witness ==
    /\ cfg.open_wait_strategy = "none"
    /\ \E i \in Reopened : heap[i].fc = 2 /\ built[i + 1].at > 0

\* The outcome last recorded into the counter of State value p.
LastRecorded(p) ==
    LET rb == heap[p].rb
    IN  rb.ring[IF rb.index = 0 THEN rb.len - 1 ELSE rb.index - 1]

\* The record step of the call that follows closed_len failures in a row
\* on a fresh breaker.
RecordsAfterFailures ==
    /\ state = 1
    /\ nrec[1] = cfg.closed_len
    /\ heap[1].rb.card = cfg.closed_len
    /\ pc[Caller] = "record"
    /\ pc'[Caller] # "record"

\* C9 as stated: after closed_len failures in a row on a fresh breaker the
\* next call trips the breaker, be its outcome a success or a failure
\* (already for a threshold within (0, 1)).
C9_AsStated ==
    [][ (RecordsAfterFailures /\ UsualThreshold)
           => pc'[Caller] = "transition" ]_vars

\* C9 amended: sequentially, a success recorded into the full window of a
\* Closed state trips the breaker whenever the failure rate after it is
\* still >= threshold_closed; after closed_len failures in a row on a fresh
\* breaker the next call trips if it is a failure, and if it is a success
\* exactly when (closed_len - 1) / closed_len >= threshold_closed; the trip
\* publishes Open(now + open_wait, 1), and a call made while the clock has
\* not passed the deadline is Rejected.
C9_SuccessCanTrip ==
    /\ [](\A p \in 1 .. Len(heap) :
            ( /\ p = state
              /\ heap[p].tag = "Closed"
              /\ pc[Caller] \in {"idle", "run"}
              /\ nrec[p] > cfg.closed_len
              /\ ~LastRecorded(p) )
            => ~RateGe(WindowRate(p), cfg.threshold_closed))
    /\ [][ RecordsAfterFailures =>
             ( pc'[Caller] = "transition" <=>
                 \/ hook[Caller] = "on_error"
                 \/ RateGe(<<cfg.closed_len - 1, cfg.closed_len>>,
                           cfg.threshold_closed) ) ]_vars
    /\ [][ ( /\ pc[Caller] = "transition"
             /\ heap[state].tag = "Closed"
             /\ pc'[Caller] # "transition" )
           => ( /\ state' = state + 1
                /\ heap'[state'] = Open(now + cfg.open_wait, 1) ) ]_vars
    /\ [][ ( /\ pc[Caller] = "permit_open"
             /\ now <= heap[state].until
             /\ pc'[Caller] # "permit_open" )
           => result'[Caller] = "Rejected" ]_vars

\* A fresh breaker with a window of two took two failures and a success,
\* tripped on the success, and rejected the next call.
C9_Witness ==
    /\ cfg.closed_len = 2
    /\ cfg.threshold_closed = <<1, 2>>
    /\ Len(heap) = 2
    /\ heap[2].tag = "Open"
    /\ nrec[1] = 3
    /\ built[2].by = "on_success"
    /\ result[Caller] = "Rejected"

\* C10 as stated: a success recorded in Closed never publishes Open.
C10_AsStated ==
    \A i \in Tripped : built[i + 1].by # "on_success"

\* A step of on_success on a Closed state.
SuccessInClosed ==
    /\ pc[Caller] \in {"record", "transition"}
    /\ pc'[Caller] # pc[Caller]
    /\ hook[Caller] = "on_success"
    /\ heap[state].tag = "Closed"

\* C10 amended: on_success observed in Closed records false into the
\* counter and goes on to publish Open(now + open_wait, 1) exactly when the
\* window was already full and the failure rate after the record is
\* >= threshold_closed; otherwise it leaves the live state as it is.
C10_SuccessInClosed ==
    [][ SuccessInClosed =>
          LET rb    == heap[state].rb
              after == rb.card - to_int(rb.ring[rb.index])
              trips == /\ rb.filling = rb.len
                       /\ RateGe(<<after, rb.len>>, cfg.threshold_closed)
          IN  IF pc[Caller] = "record"
              THEN /\ state' = state
                   /\ heap'[state].tag = "Closed"
                   /\ ~heap'[state].rb.ring[rb.index]
                   /\ heap'[state].rb.card = after
                   /\ pc'[Caller] = "transition" <=> trips
              ELSE /\ state' = state + 1
                   /\ heap'[state'] = Open(now + cfg.open_wait, 1)
                   /\ built'[state'].by = "on_success" ]_vars

\* A success has tripped a breaker whose threshold is not zero.
C10_Witness ==
    /\ \E i \in Tripped : built[i + 1].by = "on_success"
    /\ RateGt(cfg.threshold_closed, <<0, 1>>)

\* Rates a and b are the same number.
RateEq(a, b) == a[1] * b[2] = b[1] * a[2]

\* The record step of a hook on a HalfOpen state whose window is full, the
\* failure rate after the record being exactly threshold_half_open.
RecordsEqualRate ==
    /\ pc[Caller] = "record"
    /\ pc'[Caller] # "record"
    /\ heap[state].tag = "HalfOpen"
    /\ LET rb    == heap[state].rb
           after == rb.card - to_int(rb.ring[rb.index])
                            + to_int(hook[Caller] = "on_error")
       IN  /\ rb.filling = rb.len
           /\ RateEq(<<after, rb.len>>, cfg.threshold_half_open)

\* The transition step of a hook that got exactly threshold_half_open as
\* the rate of a HalfOpen state.
TransitionsEqualRate ==
    /\ pc[Caller] = "transition"
    /\ pc'[Caller] # "transition"
    /\ heap[state].tag = "HalfOpen"
    /\ RateEq(rate[Caller], cfg.threshold_half_open)

\* threshold_half_open lies in (0, 1), the range the builder documents.
UsualHalfOpenThreshold ==
    /\ RateGt(cfg.threshold_half_open, <<0, 1>>)
    /\ RateGt(<<1, 1>>, cfg.threshold_half_open)

\* C11 as stated: in HalfOpen with a full window, a recorded outcome, success
\* or failure, that yields a rate equal to threshold_half_open re-opens the
\* breaker with flap + 1 and never closes it (already for a threshold within
\* (0, 1)).
C11_AsStated ==
    /\ [][ RecordsEqualRate => pc'[Caller] = "transition" ]_vars
    /\ [][ (TransitionsEqualRate /\ UsualHalfOpenThreshold) =>
             /\ state' = state + 1
             /\ heap'[state'].tag = "Open"
             /\ heap'[state'].fc = heap[state].fc + 1 ]_vars

\* C11 amended: sequentially, in HalfOpen with a full window, a recorded
\* outcome that yields a rate equal to threshold_half_open always replaces
\* the state: a failure re-opens (Open with flap + 1), a success closes
\* (Closed with a fresh counter of length closed_len).
C11_EqualRate ==
    /\ [][ RecordsEqualRate =>
             /\ pc'[Caller] = "transition"
             /\ RateEq(rate'[Caller], cfg.threshold_half_open) ]_vars
    /\ [][ TransitionsEqualRate =>
             /\ state' = state + 1
             /\ heap'[state'] =
                   IF hook[Caller] = "on_error"
                   THEN Open(now + HalfOpenWait(heap[state].fc),
                             heap[state].fc + 1)
                   ELSE Closed(RingBufferNew(cfg.closed_len)) ]_vars

\* A success left one failure in a HalfOpen window of two, the threshold
\* being 1/2, and its hook is about to replace the state.
C11_Witness ==
    /\ pc[Caller] = "transition"
    /\ hook[Caller] = "on_success"
    /\ heap[state].tag = "HalfOpen"
    /\ cfg.half_open_len = 2
    /\ cfg.threshold_half_open = <<1, 2>>
    /\ rate[Caller] = <<1, 2>>

\* The record step of on_success on a HalfOpen state into which n outcomes,
\* all of them successes, have been recorded (up to half_open_len records
\* nothing has been evicted, so card = 0 says they all were).
RecordsSuccessAfter(n) ==
    /\ pc[Caller] = "record"
    /\ pc'[Caller] # "record"
    /\ hook[Caller] = "on_success"
    /\ heap[state].tag = "HalfOpen"
    /\ nrec[state] = n
    /\ heap[state].rb.card = 0

\* C12: sequentially, with threshold_half_open >= 0, every HalfOpen state is
\* published by a permitted call out of an expired Open state with a fresh
\* counter; the first half_open_len successes recorded into it leave it in
\* place, and the (half_open_len + 1)-th success in a row publishes Closed
\* with a fresh counter of length closed_len.
C12_ClosesAfterWindow ==
    /\ [](\A p \in 1 .. Len(heap) :
            heap[p].tag = "HalfOpen" =>
               /\ built[p].by = "call_permitted"
               /\ heap[p - 1].tag = "Open"
               /\ built[p].at > heap[p - 1].until
               /\ nrec[p] <= cfg.half_open_len =>
                     (state = p /\ pc[Caller] # "transition"))
    /\ [][ \A n \in 0 .. cfg.half_open_len - 1 :
             RecordsSuccessAfter(n) =>
                /\ pc'[Caller] = "idle"
                /\ state' = state
                /\ heap'[state].tag = "HalfOpen" ]_vars
    /\ [][ ( /\ RecordsSuccessAfter(cfg.half_open_len)
             /\ RateGe(cfg.threshold_half_open, <<0, 1>>) )
           => pc'[Caller] = "transition" ]_vars
    /\ [][ ( /\ pc[Caller] = "transition"
             /\ pc'[Caller] # "transition"
             /\ hook[Caller] = "on_success"
             /\ heap[state].tag = "HalfOpen" )
           => /\ state' = state + 1
              /\ heap'[state'] = Closed(RingBufferNew(cfg.closed_len))
              /\ nrec[state] = cfg.half_open_len + 1 ]_vars

\* A HalfOpen state with a window of two has just been closed by the third
\* outcome recorded into it, a success.
C12_Witness ==
    /\ cfg.half_open_len = 2
    /\ cfg.threshold_half_open = <<1, 2>>
    /\ state = Len(heap)
    /\ state > 1
    /\ heap[state] = Closed(RingBufferNew(cfg.closed_len))
    /\ heap[state - 1].tag = "HalfOpen"
    /\ nrec[state - 1] = 3
    /\ built[state].by = "on_success"
    /\ pc[Caller] = "idle"
    /\ result[Caller] = "Ok"

\* A step in which the permit check of the caller's call returns false.
PermitReturnsFalse ==
    /\ pc[Caller] = "permit_open"
    /\ audit'[Caller].permit = "false"

\* C13: in call_with and in RecloserFuture::poll alike, when the permit check
\* returns false the call returns Rejected there and then, the state cell and
\* every counter are as they were, and neither f (the inner future) has been
\* run (polled) nor a record hook invoked by that call.
C13_RejectedDoesNothing ==
    /\ [](result[Caller] = "Rejected" =>
            /\ pc[Caller] = "idle"
            /\ audit[Caller].permit = "false"
            /\ audit[Caller].runs = 0
            /\ audit[Caller].records = 0)
    /\ [][ PermitReturnsFalse =>
             /\ result'[Caller] = "Rejected"
             /\ pc'[Caller] = "idle"
             /\ state' = state
             /\ heap'[state] = heap[state]
             /\ nrec' = nrec
             /\ \A p \in 1 .. Len(heap) :
                   heap'[p].rb \in {heap[p].rb, NoRingBuffer} ]_vars

\* The first poll of a RecloserFuture was rejected by an Open breaker that
\* had re-opened once.
C13_Witness ==
    /\ result[Caller] = "Rejected"
    /\ audit[Caller].first = state
    /\ heap[state].tag = "Open"
    /\ heap[state].fc = 2

\* C14: with a predicate that counts no error and threshold_closed > 0,
\* whatever f returns the breaker stays in the Closed state it was built
\* with, every outcome is recorded as a success, every call is permitted,
\* and a call whose f returned Err returns Inner.
C14_PredicateCountsNothing ==
    RateGt(cfg.threshold_closed, <<0, 1>>) =>
        /\ state = 1
        /\ Len(heap) = 1
        /\ heap[1].tag = "Closed"
        /\ heap[1].rb.card = 0
        /\ pc[Caller] \in {"idle", "run", "record"}
        /\ pc[Caller] = "record" => hook[Caller] = "on_success"
        /\ result[Caller] \in {"none", "Ok", "Inner"}
        /\ audit[Caller].permit \in {"none", "true"}
        /\ audit[Caller].outcome \in {"none", "Ok", "ErrIgnored"}
        /\ audit[Caller].outcome = "ErrIgnored" => result[Caller] = "Inner"

\* More errors than the window of two is long have been returned as Inner,
\* the threshold being 1/2.
C14_Witness ==
    /\ cfg.closed_len = 2
    /\ cfg.threshold_closed = <<1, 2>>
    /\ nrec[1] = 3
    /\ pc[Caller] = "idle"
    /\ result[Caller] = "Inner"
    /\ heap[state].tag = "Closed"

\* C15: under every interleaving, for every call_with invocation: one permit
\* check at most; the call returns Rejected exactly when that check returned
\* false, and then f was not run and no hook invoked; otherwise f is run
\* once and one record hook invoked, after the permit: on_error if f
\* returned an Err the predicate counts, on_success otherwise; and the call
\* returns Ok if f returned Ok and Inner if it returned Err, whatever the
\* hook does.
C15_CallWith ==
    /\ [](\A t \in Threads :
            LET a == audit[t] IN
            /\ a.permits <= 1
            /\ result[t] \in {"none", "Ok", "Inner", "Rejected"}
            /\ (pc[t] = "idle" /\ result[t] # "none") =>
                  (result[t] = "Rejected" <=> a.permit = "false")
            /\ result[t] = "Rejected" =>
                  (pc[t] = "idle" /\ a.runs = 0 /\ a.records = 0)
            /\ (pc[t] = "idle" /\ result[t] \in {"Ok", "Inner"}) =>
                  (a.permits = 1 /\ a.runs = 1 /\ a.records = 1)
            /\ pc[t] \in {"permit_open", "run"} =>
                  (a.runs = 0 /\ a.records = 0)
            /\ a.records >= 1 => (a.permit = "true" /\ a.runs = 1)
            /\ pc[t] \in {"record", "transition"} =>
                  /\ a.records = 1
                  /\ hook[t] = "on_error" <=> a.outcome = "ErrCounted"
                  /\ hook[t] = "on_success" <=>
                        a.outcome \in {"Ok", "ErrIgnored"}
                  /\ result[t] = "Ok" <=> a.outcome = "Ok"
                  /\ result[t] = "Inner" <=>
                        a.outcome \in {"ErrCounted", "ErrIgnored"})
    /\ [][ \A t \in Threads :
             pc[t] \in {"record", "transition"} =>
                /\ result'[t] = result[t]
                /\ audit'[t].records = 1
                /\ audit'[t].runs = 1 ]_vars

\* One thread has got back an Err the breaker let through, while the other
\* is recording as a success an Err its predicate does not count.
C15_Witness ==
    \E t, u \in Threads :
        /\ pc[t] = "idle"
        /\ result[t] = "Inner"
        /\ audit[t].records = 1
        /\ pc[u] = "record"
        /\ hook[u] = "on_success"
        /\ audit[u].outcome = "ErrIgnored"

\* A step in which thread t's call_permitted returns true.
PermitReturnsTrue(t) ==
    /\ audit[t].permit # "true"
    /\ audit'[t].permit = "true"

\* C16 as stated: whenever call_permitted returns true the live state is
\* Closed or HalfOpen as it returns, also for a caller that lost the race to
\* publish HalfOpen.
C16_AsStated ==
    [][ \A t \in Threads :
          PermitReturnsTrue(t) =>
              heap'[state'].tag \in {"Closed", "HalfOpen"} ]_vars

\* C16 amended: whenever call_permitted returns true, the state it loaded
\* was Closed or HalfOpen, or an Open state past its deadline that is no
\* longer live when the call returns: a caller that wins the
\* compare-and-swap has published HalfOpen with the flap count of that Open
\* state; a caller that loses publishes nothing and is permitted whatever
\* the live state has become.
C16_PermitOnLoadedState ==
    [][ \A t \in Threads :
          PermitReturnsTrue(t) =>
              IF pc[t] = "idle"
              THEN /\ heap[state].tag \in {"Closed", "HalfOpen"}
                   /\ state' = state
              ELSE LET p == shared[t] IN
                   /\ pc[t] = "permit_open"
                   /\ heap[p].tag = "Open"
                   /\ now > heap[p].until
                   /\ state' # p
                   /\ state = p =>
                         /\ state' = Len(heap) + 1
                         /\ heap'[state'] =
                               HalfOpen(RingBufferNew(cfg.half_open_len),
                                        heap[p].fc)
                   /\ state # p =>
                         /\ state' = state
                         /\ Len(heap') = Len(heap) ]_vars

\* A caller has lost the race to publish HalfOpen and holds its permit
\* while the live state is an Open state published since.
C16_Witness ==
    \E t \in Threads :
        /\ pc[t] = "run"
        /\ audit[t].cas = "lost"
        /\ heap[shared[t]].tag = "Open"
        /\ heap[state].tag = "Open"
        /\ state > shared[t] + 1

\* C17: for every sequence of polls of a RecloserFuture, call_permitted is
\* invoked once at most, on a poll that finds the flag unset and sets it; no
\* record hook is invoked while the inner future returns Pending; and one
\* record hook is invoked, on the poll in which the inner future resolves.
C17_PermitOncePerFuture ==
    /\ [](LET a == audit[Caller] IN
          /\ a.permits <= 1
          /\ a.records <= 1
          /\ pc[Caller] \in {"pending", "permit_open", "run"} => a.records = 0
          /\ result[Caller] \in {"Dropped", "Rejected"} => a.records = 0
          /\ (pc[Caller] = "idle" /\ result[Caller] \in {"Ok", "Inner"}) =>
                a.records = 1
          /\ (future[Caller].alive /\ a.permits = 1) =>
                future[Caller].checked)
    /\ [][ audit'[Caller].permits > audit[Caller].permits =>
             /\ ~future[Caller].checked
             /\ audit'[Caller].runs = 0
             /\ future[Caller].alive => future'[Caller].checked ]_vars
    /\ [][ (pc[Caller] = "run" /\ pc'[Caller] = "pending") =>
             /\ audit'[Caller].records = 0
             /\ state' = state
             /\ nrec' = nrec ]_vars
    /\ [][ audit'[Caller].records > audit[Caller].records =>
             /\ pc[Caller] = "run"
             /\ audit[Caller].records = 0
             /\ audit'[Caller].records = 1
             /\ result'[Caller] \in {"Ok", "Inner"} ]_vars

\* A RecloserFuture whose inner future was pending at least once has
\* resolved to an error and recorded it.
C17_Witness ==
    /\ pc[Caller] = "idle"
    /\ result[Caller] = "Inner"
    /\ audit[Caller].first > 0
    /\ audit[Caller].runs = 2
    /\ audit[Caller].records = 1
    /\ audit[Caller].permits = 1

\* The caller's RecloserFuture was polled and dropped before it resolved.
PolledAndDropped ==
    /\ pc[Caller] = "idle"
    /\ result[Caller] = "Dropped"
    /\ audit[Caller].runs >= 1

\* C18 as stated: a RecloserFuture polled and then dropped before its inner
\* future resolves leaves the live state the one it was before the first
\* poll.
C18_AsStated ==
    PolledAndDropped => state = audit[Caller].first

\* A step of the caller's RecloserFuture other than the resolution of its
\* inner future.
FutureStep ==
    /\ future[Caller].alive
    /\ pc'[Caller] # pc[Caller]
    /\ pc'[Caller] # "record"
    /\ ~(pc[Caller] = "run" /\ pc'[Caller] = "idle")
    /\ pc[Caller] \in {"pending", "permit_open", "run"}

\* C18 amended: sequentially, a RecloserFuture polled and then dropped
\* before its inner future resolves has recorded nothing into any counter,
\* and the live state is the one before its first poll unless that was an
\* Open state past its deadline, which the first poll has replaced by
\* HalfOpen with a fresh counter and the same flap count; the drop undoes
\* nothing.
C18_DropRecordsNothing ==
    /\ [](PolledAndDropped =>
            LET f == audit[Caller].first IN
            /\ audit[Caller].records = 0
            /\ \/ state = f /\ heap[f].tag \in {"Closed", "HalfOpen"}
               \/ /\ state = f + 1
                  /\ heap[f].tag = "Open"
                  /\ built[state].at > heap[f].until
                  /\ heap[state] = HalfOpen(RingBufferNew(cfg.half_open_len),
                                            heap[f].fc)
                  /\ nrec[state] = 0)
    /\ [][ FutureStep =>
             /\ \A p \in 1 .. Len(heap) :
                   /\ heap'[p].rb \in {heap[p].rb, NoRingBuffer}
                   /\ nrec'[p] = nrec[p]
                   /\ heap'[p].tag = heap[p].tag
             /\ state' # state => pc[Caller] = "permit_open"
             /\ state' = state => heap'[state] = heap[state] ]_vars

\* A RecloserFuture first polled in an Open state past its deadline has
\* been dropped, leaving the breaker HalfOpen.
C18_Witness ==
    /\ PolledAndDropped
    /\ heap[audit[Caller].first].tag = "Open"
    /\ heap[state].tag = "HalfOpen"
    /\ heap[state].fc = 2

\* C19 as stated: no breaker with a window of length zero is ever built, so
\* no call, permit check or record ever fails on one.
C19_AsStated ==
    \A t \in Threads : pc[t] # "panicked"

\* The number of true cells of a ring buffer.
TrueCells(rb) == Cardinality({k \in 0 .. rb.len - 1 : rb.ring[k]})

\* The State values whose counter can still be read or written: the live
\* one and the retired ones a running hook has loaded.
Counters ==
    {p \in 1 .. Len(heap) :
        /\ heap[p].tag \in {"Closed", "HalfOpen"}
        /\ p = state \/ \E t \in Threads : shared[t] = p}

\* C20: under every interleaving of two threads making successful and
\* failing calls while the clock advances, the live state is Closed, Open or
\* HalfOpen, and every counter, live or retired, whenever its spin lock is
\* free, has card equal to the number of its true cells, 0 <= index < len
\* and filling <= len; and filling never decreases.
C20_CounterInvariants ==
    /\ [](/\ state \in 1 .. Len(heap)
          /\ heap[state].tag \in {"Closed", "Open", "HalfOpen"}
          /\ \A p \in Counters :
                LET rb == heap[p].rb IN
                ~rb.spin_lock =>
                   /\ rb.len = WindowLen(heap[p].tag)
                   /\ rb.card = TrueCells(rb)
                   /\ rb.index >= 0
                   /\ rb.index < rb.len
                   /\ rb.filling <= rb.len
                   /\ rb.filling = Min(nrec[p], rb.len))
    /\ [][ \A p \in 1 .. Len(heap) :
             p \in Counters' =>
                heap'[p].rb.filling >= heap[p].rb.filling ]_vars

\* A thread still holds a retired counter of length two that has wrapped
\* around with one failure in its window, while failures are being recorded
\* into the live one.
C20_Witness ==
    \E p \in Counters :
        /\ p # state
        /\ heap[p].rb.len = 2
        /\ nrec[p] = 3
        /\ heap[p].rb.card = 1
        /\ state \in Counters
        /\ heap[state].rb.card >= 1

\* Every set_current call on rbuf has returned.
AllReturned == \A t \in Threads : rpc[t] = "idle"

\* C21: once the N set_current calls that threads issued on a shared
\* RingBuffer of length L have all returned, index is N mod L, card is the
\* number of true cells, and the lock is free.
C21_NoRecordLost ==
    AllReturned =>
        /\ rbuf.index = Len(rhist) % rbuf.len
        /\ rbuf.card = TrueCells(rbuf)
        /\ rbuf.filling = Min(Len(rhist), rbuf.len)
        /\ ~rbuf.spin_lock

\* Both threads have recorded into a buffer of length two, five records in
\* all, and one failure is left in the window.
C21_Witness ==
    /\ AllReturned
    /\ rbuf.len = 2
    /\ Len(rhist) = 5
    /\ rbuf.card = 1
    /\ \A t \in Threads : rloc[t].k > 0

\* The sequential ring counter after the first k calls of rhist, applied one
\* at a time, and the rate the k-th of them returns.
RECURSIVE Replay(_)
Replay(k) ==
    IF k = 0
    THEN [rate |-> Sentinel, rb |-> RingBufferNew(rbuf.len)]
    ELSE set_current(Replay(k - 1).rb, rhist[k])

\* C24: the set_current calls on a shared RingBuffer are totally ordered by
\* the taking of the lock, one call at a time is inside it, each call
\* returns the rate the sequential counter returns for it when the calls
\* are applied one at a time in that order, and whenever the lock is free
\* the buffer is the sequential counter's.
C24_RefinesSequential ==
    /\ \A t, u \in Threads :
          (t # u /\ rloc[t].k > 0) => rloc[t].k # rloc[u].k
    /\ \A t, u \in Threads :
          (rpc[t] # "idle" /\ rpc[u] # "idle") => t = u
    /\ \A t \in Threads :
          (rloc[t].k > 0 /\ rpc[t] # "locked") =>
              rloc[t].rate = Replay(rloc[t].k).rate
    /\ ~rbuf.spin_lock =>
          /\ AllReturned
          /\ rbuf = Replay(Len(rhist)).rb
          /\ Len(rhist) > 0 => rret = Replay(Len(rhist)).rate

\* A thread is about to return 1/2 for the fourth call on a buffer of length
\* two, the third having been the other thread's.
C24_Witness ==
    \E t, u \in Threads :
        /\ rpc[t] = "stored"
        /\ rbuf.len = 2
        /\ rloc[t].k = 4
        /\ rloc[u].k = 3
        /\ rloc[t].rate = <<1, 2>>

\* C29: on a RingBuffer of positive length shared by threads, the cell index
\* read is within [0, len), card_old is at least 1 whenever the cell to be
\* overwritten is true, so that card_old - to_int(val_old) does not
\* underflow, and card never exceeds len.
C29_NoUnderflow ==
    /\ rbuf.len > 0
    /\ rbuf.index \in 0 .. rbuf.len - 1
    /\ rbuf.card \in 0 .. rbuf.len
    /\ rbuf.ring[rbuf.index] => rbuf.card >= 1
    /\ \A t \in Threads :
          rpc[t] \in {"loaded", "stored"} =>
              /\ rloc[t].i \in 0 .. rbuf.len - 1
              /\ rloc[t].j \in 0 .. rbuf.len - 1
              /\ rloc[t].card_new \in 0 .. rbuf.len

\* A success is about to overwrite the only failure of a full window.
C29_Witness ==
    \E t \in Threads :
        /\ rpc[t] = "locked"
        /\ ~rloc[t].val_new
        /\ rbuf.filling = rbuf.len
        /\ rbuf.ring[rbuf.index]
        /\ rbuf.card = 1
        /\ rbuf.len = 2

\* A step in which thread t's compare_exchange is made: by a transition
\* closure's caller, or by call_permitted past the deadline.
Exchanges(t) ==
    \/ pc[t] = "transition" /\ pc'[t] # "transition"
    \/ pc[t] = "permit_open" /\ pc'[t] = "run"

\* The successor thread t has built for the State value it loaded.
Built(t) ==
    IF pc[t] = "permit_open"
    THEN HalfOpen(RingBufferNew(cfg.half_open_len), heap[shared[t]].fc)
    ELSE Successor(hook[t], heap[shared[t]])

\* C22: under every interleaving, every published State value but the live
\* one has been replaced once, by a successor built from it; a
\* compare_exchange by a thread whose loaded value is still live publishes
\* the successor it built, and one by a thread whose loaded value has been
\* replaced leaves the state cell as it is, after which the thread goes on
\* without another attempt.
C22_ReplacedOnce ==
    /\ [](/\ state = Len(heap)
          /\ \A i \in 2 .. Len(heap) : built[i].from = i - 1)
    /\ [][ \A t \in Threads :
             Exchanges(t) =>
                IF state = shared[t]
                THEN /\ state' = Len(heap) + 1
                     /\ Len(heap') = Len(heap) + 1
                     /\ heap'[state'] = Built(t)
                ELSE /\ state' = state
                     /\ Len(heap') = Len(heap)
                     /\ heap'[state] = heap[state]
                     /\ pc'[t] = IF pc[t] = "permit_open" THEN "run"
                                 ELSE "idle" ]_vars

\* A hook is about to attempt the transition of a Closed state that another
\* hook, having loaded the same value, has already replaced.
C22_Witness ==
    \E t \in Threads :
        /\ pc[t] = "transition"
        /\ shared[t] = state - 1
        /\ heap[shared[t]].tag = "Closed"
        /\ built[state].from = shared[t]
        /\ built[state].by \in {"on_success", "on_error"}

\* A step of a record hook of thread t that loaded a State value since
\* replaced.
LateHookStep(t) ==
    /\ pc[t] \in {"record", "transition"}
    /\ pc'[t] # pc[t]
    /\ shared[t] # state

\* C23: under every interleaving, a record hook that loaded a State value
\* and records or attempts its transition after that value has been replaced
\* leaves the state cell, the live state and its counter as they are,
\* whatever rate its record returned.
C23_RetiredIsInert ==
    [][ \A t \in Threads :
          LateHookStep(t) =>
              /\ state' = state
              /\ Len(heap') = Len(heap)
              /\ heap'[state] = heap[state]
              /\ nrec'[state] = nrec[state] ]_vars

\* A hook whose late record into a replaced HalfOpen state returned a rate
\* that closes is about to attempt the transition, the live state being a
\* Closed state that has records of its own.
C23_Witness ==
    \E t \in Threads :
        /\ pc[t] = "transition"
        /\ hook[t] = "on_success"
        /\ shared[t] # state
        /\ heap[shared[t]].tag = "HalfOpen"
        /\ heap[state].tag = "Closed"
        /\ nrec[state] >= 1

\* The replacements the hooks and call_permitted make.
Edges ==
    { <<"Closed", "Open">>, <<"Open", "HalfOpen">>,
      <<"HalfOpen", "Closed">>, <<"HalfOpen", "Open">> }

\* C30: under every interleaving, the first state is Closed, every
\* replacement is one of Closed -> Open, Open -> HalfOpen, HalfOpen ->
\* Closed, HalfOpen -> Open, made from the state replaced, and every Open or
\* HalfOpen state has a flap count of at least 1.
C30_OnlyFourEdges ==
    /\ heap[1].tag = "Closed"
    /\ \A i \in Replaced :
          /\ <<heap[i].tag, heap[i + 1].tag>> \in Edges
          /\ built[i + 1].from = i
    /\ \A p \in 1 .. Len(heap) :
          heap[p].tag \in {"Open", "HalfOpen"} => heap[p].fc >= 1

\* The breaker has gone through all four edges.
C30_Witness ==
    /\ Len(heap) = 6
    /\ [p \in 1 .. 6 |-> heap[p].tag] =
          <<"Closed", "Open", "HalfOpen", "Open", "HalfOpen", "Closed">>
    /\ heap[5].fc = 2
    /\ \A t \in Threads : pc[t] = "idle"

\* The counters no thread can reach any more may be forgotten; no other
\* part of a published State value changes.
SameStates ==
    /\ Len(heap') = Len(heap)
    /\ \A p \in 1 .. Len(heap) :
          \/ heap'[p] = heap[p]
          \/ heap'[p] = [heap[p] EXCEPT !.rb = NoRingBuffer]

\* C27: under every interleaving, an on_success or on_error that loads an
\* Open state returns at once, before or after the deadline: nothing is
\* recorded into any counter, the state cell and the live state with its
\* deadline and flap count are unchanged, and no State value is published.
C27_OpenHookIsNoOp ==
    [][ \A t \in Threads :
          pc[t] = "run" /\ pc'[t] # "run" /\ heap[state].tag = "Open" =>
              /\ pc'[t] = "idle"
              /\ audit'[t].noop
              /\ state' = state
              /\ heap'[state] = heap[state]
              /\ SameStates
              /\ nrec' = nrec
              /\ built' = built ]_vars

\* A call permitted before the breaker tripped has run f, its hook has
\* matched an Open state and returned, and the deadline has passed.
C27_Witness ==
    \E t \in Threads :
        /\ pc[t] = "idle"
        /\ audit[t].noop
        /\ result[t] = "Inner"
        /\ heap[state].tag = "Open"
        /\ now > heap[state].until

\* C25: under every interleaving, the State value a running hook has loaded
\* has not been destroyed, and neither has the one in the state cell, so no
\* hook reads or records into the counter of a destroyed State value.
C25_LoadedStateIsAlive ==
    /\ state \notin garbage.destroyed
    /\ \A t \in Threads :
          shared[t] # 0 => shared[t] \notin garbage.destroyed

\* A hook is about to record into the counter of a Closed state that has
\* been replaced, and whose successor has been replaced too.
C25_Witness ==
    \E t \in Threads :
        /\ pc[t] = "record"
        /\ shared[t] < state - 1
        /\ heap[shared[t]].tag = "Closed"
        /\ heap[shared[t]].rb # NoRingBuffer
        /\ shared[t] \notin garbage.destroyed

\* C26 as stated: every State value replaced by a successful
\* compare_exchange has been handed to the collector for deferred
\* destruction, or has been destroyed by it.
C26_AsStated ==
    \A p \in Replaced : p \in garbage.deferred \cup garbage.destroyed

\* Thread t has exchanged State value p for its successor and has not yet
\* emitted the two events.
Emitting(t, p) == pc[t] \in {"swap_ts", "emit"} /\ shared[t] = p

\* C28 as stated: with the feature "tracing", once the thread that replaced
\* a State value is through transition_state or call_permitted, one ended
\* event has been emitted for the replaced value and one started event for
\* its successor, and none otherwise; the duration_sec of every ended event
\* is its ended_ts minus the started_ts emitted for the same State value,
\* and is not the result of an underflow.
C28_AsStated ==
    \A p \in 1 .. Len(heap) :
        /\ Cardinality(events[p].ended) =
              IF p \in Replaced /\ \A t \in Threads : ~Emitting(t, p)
              THEN 1 ELSE 0
        /\ Cardinality(events[p].started) =
              IF p = 1 \/ \A t \in Threads : ~Emitting(t, p - 1)
              THEN 1 ELSE 0
        /\ \A e \in events[p].ended :
              /\ e.duration_sec >= 0
              /\ \A s \in events[p].started :
                    e.duration_sec = e.ended_ts - s

\* 0 <= threshold_half_open <= 1
HalfOpenThresholdInRange ==
    /\ RateGe(cfg.threshold_half_open, <<0, 1>>)
    /\ RateLe(cfg.threshold_half_open, <<1, 1>>)

\* C31: sequentially, with 0 <= threshold_half_open <= 1 and for every
\* sequence of outcomes, a HalfOpen state is in place for at most 2 *
\* half_open_len recorded outcomes: the hook that records the (2 *
\* half_open_len)-th, if none did before, goes on to replace it, so the
\* records that decide and leave it in place are fewer than half_open_len.
C31_HalfOpenIsLeft ==
    HalfOpenThresholdInRange =>
        /\ Len(rhist) <= 2 * rbuf.len
        /\ Len(rhist) = 2 * rbuf.len => Left

\* A HalfOpen state with a window of two has stayed in place over the third
\* outcome recorded into it, and the fourth has its hook replace it.
C31_Witness ==
    /\ rbuf.len = 2
    /\ HalfOpenThresholdInRange
    /\ Len(rhist) = 4
    /\ Left

\* threshold_closed > 0 and threshold_half_open >= 0 (a threshold is a
\* numerator over a positive denominator).
ThresholdsAllowClosing ==
    /\ cfg.threshold_closed[1] > 0
    /\ cfg.threshold_half_open[1] >= 0

\* The live state is Closed and the caller's last call was not rejected.
ClosedAndPermitting ==
    /\ heap[state].tag = "Closed"
    /\ result[Caller] # "Rejected"

\* f has stopped failing, with room left under the bound on the published
\* states for the three states the breaker may still need: Open, HalfOpen
\* and Closed.
Recovered ==
    /\ recovered > 0
    /\ recovered + 3 <= MaxStates

\* C32: sequentially, with threshold_closed > 0 and threshold_half_open >=
\* 0, for a caller that keeps calling and a clock that keeps advancing past
\* the pending deadline: from whatever state f stops failing in, at most
\* three more states are published, and from some point on the live state
\* is Closed for ever and no call is rejected.
C32_SuccessesCloseForGood ==
    /\ []( (ThresholdsAllowClosing /\ recovered > 0) =>
              Len(heap) <= recovered + 3 )
    /\ <>[]( (ThresholdsAllowClosing /\ Recovered) => ClosedAndPermitting )

\* After a failure tripped the breaker, successes have closed it, and a
\* later successful call has been permitted and recorded into the new
\* Closed state.
C32_Witness ==
    /\ ThresholdsAllowClosing
    /\ recovered = 2
    /\ Len(heap) = 4
    /\ state = 4
    /\ heap[4].tag = "Closed"
    /\ built[4].by = "on_success"
    /\ built[2].by = "on_error"
    /\ nrec[4] >= 1
    /\ pc[Caller] = "idle"
    /\ result[Caller] = "Ok"

\* The threads between the swap that took the lock and the store that frees
\* it.
Holders == {t \in Threads : rpc[t] \in {"locked", "loaded", "stored"}}

\* C33: for threads that make finitely many set_current calls on one
\* RingBuffer of positive length, each thread taking its steps under weak
\* fairness: every call returns at last; at most one thread is between
\* taking the lock and freeing it, and the lock is taken exactly while one
\* is, so it is free once every call has returned.
C33_EveryCallReturns ==
    /\ \A t \in Threads : (rpc[t] # "idle") ~> (rpc[t] = "idle")
    /\ [](Cardinality(Holders) <= 1)
    /\ [](rbuf.spin_lock <=> Holders # {})
    /\ [](AllReturned => ~rbuf.spin_lock)

\* One thread is at the head of the loop with its call, the lock being
\* held by the other, which is about to free it.
C33_Witness ==
    /\ rbuf.len >= 1
    /\ rbuf.spin_lock
    /\ Len(rhist) >= 2
    /\ \E t, u \in Threads :
          /\ rpc[t] = "spin"
          /\ rpc[u] = "stored"

====
